---- MODULE Spec2Model ----
(***************************************************************************)
(* A model of the Bitcask-style key-value engine of src/src/engine.rs:     *)
(* an append-only log file with a 12-byte header, an in-memory index of    *)
(* locators, a pool of read handles and a compactor with an adaptive       *)
(* threshold.  Files are byte sequences; every read, write and parse is    *)
(* done on bytes, as the code does it.                                     *)
(***************************************************************************)
EXTENDS Integers, Sequences, FiniteSets, Bags, TLC

(***************************************************************************)
(* Bounds of the model.                                                    *)
(***************************************************************************)
\* u64 values are modelled with U64Bits bits: U64_MAX is 2^U64Bits - 1.
U64Bits == 24
\* set/del are not started once the tracked file size would pass this:
\* with one thread, and with several.
MaxFileSize == 120
MaxFileSizeConc == 82
\* compact is not started more often than this (one inode per compaction).
MaxCompactions == 2
\* the same, where many readers run
MaxCompactionsReaders == 1
\* gets in flight together where many readers run
MaxReaders == 5
\* records in the log of an engine that opens on an earlier run's file
MaxInitRecords == 2
\* at most this many operations are in flight together.
MaxThreads == 3
\* bytes of failed appends that the live file holds at a time
MaxTornBytes == 8

(***************************************************************************)
(* src/src/constants.rs                                                    *)
(***************************************************************************)
DEFAULT_COMPACT_THRESHOLD == 1048576
LEN_PREFIX_SIZE == 8
FILE_HEADER_MAGIC == <<75, 86, 83, 49>>
FILE_HEADER_SIZE == 12
\* load and compact open this many read handles; get returns a handle to
\* the pool only while the pool holds fewer than PoolCap.
PoolFill == 4
PoolCap == 8

U64Mod == 2 ^ U64Bits
U64_MAX == U64Mod - 1

(***************************************************************************)
(* Inputs.                                                                 *)
(***************************************************************************)
Keys == {<<1>>, <<2>>}
Values == {<<>>, <<7>>}
Tstamps == {0}
\* thresholds a data file may carry in its header when the engine opens it
InitThresholds == {64}

(***************************************************************************)
(* Option<Vec<u8>> and io::Result                                          *)
(***************************************************************************)
None == <<>>
Some(v) == <<v>>
IsSome(o) == Len(o) = 1
Unwrap(o) == o[1]

(***************************************************************************)
(* u64::to_le_bytes / u64::from_le_bytes.  Numbers of the model stay below *)
(* 2^31, so bytes 5..8 are zero when written; a byte string that encodes   *)
(* more than that reads as TooLarge, which is larger than any file.        *)
(***************************************************************************)
TooLarge == 2 ^ 30 + (2 ^ 30 - 1)

to_le_bytes(n) ==
    [i \in 1..8 |-> IF i <= 4 THEN (n \div (256 ^ (i - 1))) % 256 ELSE 0]

from_le_bytes(b) ==
    IF b[5] # 0 \/ b[6] # 0 \/ b[7] # 0 \/ b[8] # 0 \/ b[4] >= 128
    THEN TooLarge
    ELSE b[1] + 256 * b[2] + 65536 * b[3] + 16777216 * b[4]

(***************************************************************************)
(* The record codec (wincode on DataFileEntry {tstamp, key, value}):       *)
(* i64 tstamp, u64 key length, key bytes, one tag byte (0 = None,          *)
(* 1 = Some), and for Some a u64 value length and the value bytes.         *)
(***************************************************************************)
\* mutant: a record without a value is written with the empty value
DataFileEntry_empty_value(tstamp, key, value) ==
    [tstamp |-> tstamp, key |-> key,
     value |-> IF IsSome(value) THEN value ELSE Some(<<>>)]

DataFileEntry(tstamp, key, value) ==
    [tstamp |-> tstamp, key |-> key, value |-> value]

serialize(entry) ==
    to_le_bytes(entry.tstamp)
    \o to_le_bytes(Len(entry.key)) \o entry.key
    \o (IF IsSome(entry.value)
        THEN <<1>> \o to_le_bytes(Len(Unwrap(entry.value))) \o Unwrap(entry.value)
        ELSE <<0>>)

\* deserialize gives <<entry>>, or <<>> when the bytes are no record.
deserialize(b) ==
    IF Len(b) < 17 THEN <<>>
    ELSE
      LET klen == from_le_bytes(SubSeq(b, 9, 16)) IN
      IF klen > Len(b) - 17 THEN <<>>
      ELSE
        LET key == SubSeq(b, 17, 16 + klen)
            tag == b[17 + klen]
            ts == from_le_bytes(SubSeq(b, 1, 8))
        IN
        IF tag = 0 THEN <<DataFileEntry(ts, key, None)>>
        ELSE IF tag # 1 \/ Len(b) < 25 + klen THEN <<>>
        ELSE
          LET vlen == from_le_bytes(SubSeq(b, 18 + klen, 25 + klen)) IN
          IF vlen > Len(b) - 25 - klen THEN <<>>
          ELSE <<DataFileEntry(ts, key,
                     Some(SubSeq(b, 26 + klen, 25 + klen + vlen)))>>

(***************************************************************************)
(* Files.  A byte at offset p (from 0) of a file f is f[p + 1].            *)
(***************************************************************************)
\* mutant: the locator holds the position of the length prefix
LogIndex_at_prefix(pos, len) == [pos |-> pos - LEN_PREFIX_SIZE, len |-> len]

LogIndex(pos, len) == [pos |-> pos, len |-> len]

\* write_header: the magic, then the threshold, at offset 0.
write_header(f, threshold) ==
    LET h == FILE_HEADER_MAGIC \o to_le_bytes(threshold) IN
    IF Len(f) <= FILE_HEADER_SIZE THEN h
    ELSE h \o SubSeq(f, FILE_HEADER_SIZE + 1, Len(f))

\* persist_threshold: the header is rewritten in place.
\* mutant: the doubled threshold is not written to the header
persist_threshold_skipped(f, threshold) == f

persist_threshold(f, threshold) == write_header(f, threshold)

\* seek(Start(pos)) and read_exact of len bytes: <<bytes>>, or <<>> at EOF.
read_exact_at(f, pos, len) ==
    IF pos + len > Len(f) THEN <<>>
    ELSE <<SubSeq(f, pos + 1, pos + len)>>

\* seek(End(0)), write the length prefix, then the body.
\* mutant: the body is written without its length prefix
append_record_no_prefix(f, data) == f \o data

append_record(f, data) == f \o to_le_bytes(Len(data)) \o data

(***************************************************************************)
(* The index: a function from the keys it holds to their locators.         *)
(***************************************************************************)
EmptyIndex == [k \in {} |-> LogIndex(0, 0)]
\* mutant: a key already in the map keeps its locator
insert_if_absent(idx, key, loc) ==
    [k \in DOMAIN idx \cup {key} |-> IF k \in DOMAIN idx THEN idx[k] ELSE loc]

insert(idx, key, loc) ==
    [k \in DOMAIN idx \cup {key} |-> IF k = key THEN loc ELSE idx[k]]
\* mutant: a del leaves the key in the map
remove_nothing(idx, key) == idx

remove(idx, key) == [k \in DOMAIN idx \ {key} |-> idx[k]]

(***************************************************************************)
(* Engine::ensure_header, Engine::rebuild_index, Engine::load              *)
(***************************************************************************)
\* [ok, file, threshold]: the file as ensure_header leaves it.
\* mutant: the magic is not compared
ensure_header_any_magic(f, compact_threshold) ==
    IF Len(f) = 0
    THEN [ok |-> TRUE, file |-> write_header(f, compact_threshold),
          threshold |-> compact_threshold]
    ELSE IF Len(f) < FILE_HEADER_SIZE
    THEN [ok |-> FALSE, file |-> f, threshold |-> 0]
    ELSE [ok |-> TRUE, file |-> f,
          threshold |-> from_le_bytes(SubSeq(f, 5, 12))]

\* mutant: the caller's threshold wins over the header's
ensure_header_supplied(f, compact_threshold) ==
    IF Len(f) = 0
    THEN [ok |-> TRUE, file |-> write_header(f, compact_threshold),
          threshold |-> compact_threshold]
    ELSE IF Len(f) < FILE_HEADER_SIZE
    THEN [ok |-> FALSE, file |-> f, threshold |-> 0]
    ELSE IF SubSeq(f, 1, 4) # FILE_HEADER_MAGIC
    THEN [ok |-> FALSE, file |-> f, threshold |-> 0]
    ELSE [ok |-> TRUE, file |-> f, threshold |-> compact_threshold]

ensure_header(f, compact_threshold) ==
    IF Len(f) = 0
    THEN [ok |-> TRUE, file |-> write_header(f, compact_threshold),
          threshold |-> compact_threshold]
    ELSE IF Len(f) < FILE_HEADER_SIZE
    THEN [ok |-> FALSE, file |-> f, threshold |-> 0]
    ELSE IF SubSeq(f, 1, 4) # FILE_HEADER_MAGIC
    THEN [ok |-> FALSE, file |-> f, threshold |-> 0]
    ELSE [ok |-> TRUE, file |-> f,
          threshold |-> from_le_bytes(SubSeq(f, 5, 12))]

\* mutant: a body cut short is an error
RECURSIVE scan_torn_is_error(_, _, _)
scan_torn_is_error(f, pos, idx) ==
    IF pos + LEN_PREFIX_SIZE > Len(f)
    THEN [ok |-> TRUE, index |-> idx, file_size |-> Len(f)]
    ELSE
      LET entry_len == from_le_bytes(SubSeq(f, pos + 1, pos + LEN_PREFIX_SIZE))
          data_pos == pos + LEN_PREFIX_SIZE
      IN
      IF entry_len > Len(f) - data_pos
      THEN [ok |-> FALSE, index |-> idx, file_size |-> 0]
      ELSE
        LET d == deserialize(SubSeq(f, data_pos + 1, data_pos + entry_len)) IN
        IF d = <<>>
        THEN [ok |-> FALSE, index |-> idx, file_size |-> 0]
        ELSE IF IsSome(d[1].value)
        THEN scan_torn_is_error(f, data_pos + entry_len,
                  insert(idx, d[1].key, LogIndex(data_pos, entry_len)))
        ELSE scan_torn_is_error(f, data_pos + entry_len, remove(idx, d[1].key))

\* The scan loop of rebuild_index from stream position pos.
RECURSIVE scan(_, _, _)
scan(f, pos, idx) ==
    IF pos + LEN_PREFIX_SIZE > Len(f)
    THEN [ok |-> TRUE, index |-> idx, file_size |-> Len(f)]
    ELSE
      LET entry_len == from_le_bytes(SubSeq(f, pos + 1, pos + LEN_PREFIX_SIZE))
          data_pos == pos + LEN_PREFIX_SIZE
      IN
      IF entry_len > Len(f) - data_pos
      THEN [ok |-> TRUE, index |-> idx, file_size |-> Len(f)]
      ELSE
        LET d == deserialize(SubSeq(f, data_pos + 1, data_pos + entry_len)) IN
        IF d = <<>>
        THEN [ok |-> FALSE, index |-> idx, file_size |-> 0]
        ELSE IF IsSome(d[1].value)
        THEN scan(f, data_pos + entry_len,
                  insert(idx, d[1].key, LogIndex(data_pos, entry_len)))
        ELSE scan(f, data_pos + entry_len, remove(idx, d[1].key))

\* mutant: the scan starts at the header
rebuild_index_from_start(f) == scan(f, 0, EmptyIndex)

rebuild_index(f) == scan(f, FILE_HEADER_SIZE, EmptyIndex)

\* [ok, file, threshold, index, file_size]
load(f) ==
    LET h == ensure_header(f, DEFAULT_COMPACT_THRESHOLD)
        r == rebuild_index(h.file)
    IN [ok |-> h.ok /\ r.ok, file |-> h.file, threshold |-> h.threshold,
        index |-> r.index, file_size |-> r.file_size]

\* n read handles opened on inode ino
open_readers(ino, n) == [i \in 1..n |-> ino]

(***************************************************************************)
(* Engine::get, in the three parts a get runs in.                          *)
(***************************************************************************)
Ok(v) == [ok |-> TRUE, value |-> v]
Err == [ok |-> FALSE, value |-> None]

\* pool.pop(), or a fresh handle opened on the path
get_reader(pool, pathIno) ==
    IF Len(pool) > 0 THEN pool[Len(pool)] ELSE pathIno
get_pool_after_pop(pool) ==
    IF Len(pool) > 0 THEN SubSeq(pool, 1, Len(pool) - 1) ELSE pool
\* the handle goes back while the pool holds fewer than PoolCap
get_pool_after_push(pool, reader) ==
    IF Len(pool) < PoolCap THEN Append(pool, reader) ELSE pool
\* decode of the bytes read
get_result(data) ==
    LET d == deserialize(data) IN
    IF d = <<>> THEN Err ELSE Ok(d[1].value)

\* a whole get on a state in which nothing else runs
engine_get(idx, fs, pathIno, pool, key) ==
    IF key \notin DOMAIN idx THEN Ok(None)
    ELSE
      LET r == get_reader(pool, pathIno)
          rd == read_exact_at(fs[r], idx[key].pos, idx[key].len)
      IN IF rd = <<>> THEN Err ELSE get_result(rd[1])

(***************************************************************************)
(* u64 arithmetic of compact                                               *)
(***************************************************************************)
wrapping_mul(a, b) == (a * b) % U64Mod
saturating_mul(a, b) == IF a * b > U64_MAX THEN U64_MAX ELSE a * b

\* the test of compact's last step, as the build without overflow checks
\* computes it
should_double(new_file_size, old_file_size) ==
    wrapping_mul(new_file_size, 4) > wrapping_mul(old_file_size, 3)

\* the threshold compact leaves behind
adapt_threshold(new_file_size, old_file_size, threshold) ==
    IF should_double(new_file_size, old_file_size)
    THEN saturating_mul(threshold, 2)
    ELSE threshold

(***************************************************************************)
(* The copy loop of compact: the entries, in the order the map's iterator  *)
(* gives them, are read from the live file and appended to the tmp file.   *)
(***************************************************************************)
\* mutant: the new locator is the position of the length prefix
RECURSIVE compact_copy_prefix_pos(_, _, _, _, _, _)
compact_copy_prefix_pos(entries, idx, livef, tmpf, new_index, new_file_size) ==
    IF entries = <<>>
    THEN [ok |-> TRUE, tmp |-> tmpf, new_index |-> new_index,
          new_file_size |-> new_file_size]
    ELSE
      LET key == Head(entries)
          rd == read_exact_at(livef, idx[key].pos, idx[key].len)
      IN
      IF rd = <<>>
      THEN [ok |-> FALSE, tmp |-> tmpf, new_index |-> new_index,
            new_file_size |-> new_file_size]
      ELSE
        LET data == rd[1]
            entry_len == Len(data)
            new_pos == Len(tmpf)
        IN compact_copy_prefix_pos(
               Tail(entries), idx, livef, append_record(tmpf, data),
               insert(new_index, key, LogIndex(new_pos, entry_len)),
               new_file_size + LEN_PREFIX_SIZE + entry_len)

\* mutant: the new size leaves out the length prefixes
RECURSIVE compact_copy_body_sizes(_, _, _, _, _, _)
compact_copy_body_sizes(entries, idx, livef, tmpf, new_index, new_file_size) ==
    IF entries = <<>>
    THEN [ok |-> TRUE, tmp |-> tmpf, new_index |-> new_index,
          new_file_size |-> new_file_size]
    ELSE
      LET key == Head(entries)
          rd == read_exact_at(livef, idx[key].pos, idx[key].len)
      IN
      IF rd = <<>>
      THEN [ok |-> FALSE, tmp |-> tmpf, new_index |-> new_index,
            new_file_size |-> new_file_size]
      ELSE
        LET data == rd[1]
            entry_len == Len(data)
            new_pos == Len(tmpf) + LEN_PREFIX_SIZE
        IN compact_copy_body_sizes(
               Tail(entries), idx, livef, append_record(tmpf, data),
               insert(new_index, key, LogIndex(new_pos, entry_len)),
               new_file_size + entry_len)

RECURSIVE compact_copy(_, _, _, _, _, _)
compact_copy(entries, idx, livef, tmpf, new_index, new_file_size) ==
    IF entries = <<>>
    THEN [ok |-> TRUE, tmp |-> tmpf, new_index |-> new_index,
          new_file_size |-> new_file_size]
    ELSE
      LET key == Head(entries)
          rd == read_exact_at(livef, idx[key].pos, idx[key].len)
      IN
      IF rd = <<>>
      THEN [ok |-> FALSE, tmp |-> tmpf, new_index |-> new_index,
            new_file_size |-> new_file_size]
      ELSE
        LET data == rd[1]
            entry_len == Len(data)
            new_pos == Len(tmpf) + LEN_PREFIX_SIZE
        IN compact_copy(Tail(entries), idx, livef, append_record(tmpf, data),
                        insert(new_index, key, LogIndex(new_pos, entry_len)),
                        new_file_size + LEN_PREFIX_SIZE + entry_len)

\* the orders in which a map's iterator may give the keys of idx
IterOrders(idx) ==
    {o \in [1..Cardinality(DOMAIN idx) -> DOMAIN idx] :
        \A i, j \in DOMAIN o : i # j => o[i] # o[j]}

(***************************************************************************)
(* State                                                                   *)
(***************************************************************************)
VARIABLES
    files,              \* inode -> bytes, for the inodes that still exist
    path,               \* the inode self.path names
    file,               \* the inode of the read-write handle self.file
    index,              \* self.index
    file_size,          \* self.file_size
    compact_threshold,  \* self.compact_threshold
    reader_pool,        \* self.reader_pool: handles, each the inode it is open on
    writer,             \* the call that holds the file lock, and its locals
    pending,            \* bag of the set calls past the file lock that are about to call compact
    readers,            \* bag of the get calls that hold the index lock shared
    ret,                \* the call that returned in the last step
    limits,             \* the workload: calls in flight together, file size
    store,              \* key -> value of the last index update for it
    lastF,              \* key -> value of the last writer that took the file lock
    pool_lock,          \* the reader-pool lock is held from one step to the next
    law,                \* sizes and threshold given to compact's last step, and its outcome
    boot                \* Engine::load: the file it is given and whether it has returned

vars == <<files, path, file, index, file_size, compact_threshold, reader_pool,
          writer, pending, readers, ret, limits, store, lastF, pool_lock,
          law, boot>>

\* the engine as a call finds it when it starts
NoSnap == [path |-> 0, index |-> EmptyIndex, file |-> <<>>, file_size |-> 0,
           threshold |-> 0, contents |-> <<>>]

NoWriter ==
    [op |-> "none", key |-> <<>>, value |-> None, pos |-> 0, len |-> 0,
     new_file_size |-> 0, old_file_size |-> 0, new_index |-> EmptyIndex,
     tmp |-> 0, from_set |-> FALSE, pre |-> <<>>, pre_keys |-> {},
     snap |-> NoSnap]

\* load has returned an engine
Booted == [state |-> "open", input |-> <<>>, history |-> <<>>, tail |-> <<>>,
           threshold |-> 0]

NoLaw == [new_file_size |-> 0, old_file_size |-> 0, threshold |-> 0,
          done |-> FALSE, panic |-> FALSE, out |-> 0]

NoRet == [op |-> "none", key |-> <<>>, result |-> Ok(None), allowed |-> {},
          seenF |-> None, seenIdx |-> None, pre |-> <<>>, pre_keys |-> {},
          compacted |-> FALSE, old_file_size |-> 0, old_threshold |-> 0,
          snap |-> NoSnap]

InFlight ==
    (IF writer.op = "none" THEN 0 ELSE 1) + BagCardinality(pending)
    + BagCardinality(readers)

Quiescent == InFlight = 0

\* the inodes something still refers to
Referenced(p, f, pool, rds, w) ==
    {p, f} \cup {pool[i] : i \in DOMAIN pool}
    \cup {r.reader : r \in BagToSet(rds)}
    \cup (IF w.op = "compact" THEN {w.tmp} ELSE {})

\* an unlinked inode goes when its last handle is closed
Gc(fs, refs) == [i \in DOMAIN fs \cap refs |-> fs[i]]

(***************************************************************************)
(* Init: the engine as Engine::load returns it, on a new file, on a file   *)
(* that holds only a header, or on the log an earlier run of the engine    *)
(* left behind.                                                            *)
(***************************************************************************)
InitFiles == {<<>>} \cup {write_header(<<>>, t) : t \in InitThresholds}

\* the calls of an earlier run: sets and dels
Calls ==
    {[op |-> "set", key |-> k, value |-> Some(v)] : k \in Keys, v \in Values}
    \cup {[op |-> "del", key |-> k, value |-> None] : k \in Keys}

Histories == UNION {[1..n -> Calls] : n \in 0..MaxInitRecords}

\* the log these calls leave behind a header
RECURSIVE LogOf(_, _)
LogOf(h, f) ==
    IF h = <<>> THEN f
    ELSE LogOf(Tail(h),
               append_record(f, serialize(
                   DataFileEntry(0, Head(h).key, Head(h).value))))

\* what they leave of each key
RECURSIVE StoreOf(_, _)
StoreOf(h, st) ==
    IF h = <<>> THEN st
    ELSE StoreOf(Tail(h), [st EXCEPT ![Head(h).key] = Head(h).value])

EmptyStore == [k \in Keys |-> None]

InitState(f, st, lim, l) ==
    LET e == load(f) IN
    /\ e.ok
    /\ files = [i \in {0} |-> e.file]
    /\ path = 0
    /\ file = 0
    /\ index = e.index
    /\ file_size = e.file_size
    /\ compact_threshold = e.threshold
    /\ reader_pool = open_readers(0, PoolFill)
    /\ writer = NoWriter
    /\ pending = EmptyBag
    /\ readers = EmptyBag
    /\ ret = NoRet
    /\ limits = lim
    /\ store = st
    /\ lastF = st
    /\ pool_lock = FALSE
    /\ law = l
    /\ boot = Booted

InitEngine(f, st, lim) == InitState(f, st, lim, NoLaw)

Init ==
    \E f \in InitFiles :
        InitEngine(f, EmptyStore,
                   [threads |-> MaxThreads, file_size |-> MaxFileSizeConc,
                    compactions |-> MaxCompactions])

\* the engine used by one thread
SeqFiles == InitFiles \cup {write_header(<<>>, 80)}

InitSeq ==
    \E f \in SeqFiles :
        InitEngine(f, EmptyStore,
                   [threads |-> 1, file_size |-> MaxFileSize,
                    compactions |-> MaxCompactions])

\* many readers beside writers whose set calls compact
InitRW ==
    \E t \in InitThresholds :
        InitEngine(write_header(<<>>, t), EmptyStore,
                   [threads |-> MaxReaders, file_size |-> MaxFileSizeConc,
                    compactions |-> MaxCompactionsReaders])

\* many readers and a compactor on an engine that holds records
InitReaders ==
    \E h \in Histories :
        InitEngine(LogOf(h, write_header(<<>>, DEFAULT_COMPACT_THRESHOLD)),
                   StoreOf(h, EmptyStore),
                   [threads |-> MaxReaders, file_size |-> MaxFileSizeConc,
                    compactions |-> MaxCompactionsReaders])

(***************************************************************************)
(* Engine::set.  SetAppend: the file lock is taken, the record appended    *)
(* and the tracked size updated.  SetIndex: the index lock is taken        *)
(* exclusive, the locator inserted, the threshold read and the file lock   *)
(* dropped; the call returns, or goes on to call compact.                  *)
(***************************************************************************)
\* what get returns for every key, on a state in which nothing else runs
Contents == [k \in Keys |-> engine_get(index, files, path, reader_pool, k)]

Snap == [path |-> path, index |-> index, file |-> files[path],
         file_size |-> file_size, threshold |-> compact_threshold,
         contents |-> Contents]

\* compactions done, running and owed by set calls
Compactions ==
    path + BagCardinality(pending) + (IF writer.op = "compact" THEN 1 ELSE 0)

SetAppend(key, value, tstamp) ==
    LET data == serialize(DataFileEntry(tstamp, key, Some(value)))
        entry_len == Len(data)
        data_pos == Len(files[file]) + LEN_PREFIX_SIZE
        new_file_size == file_size + LEN_PREFIX_SIZE + entry_len
    IN
    /\ boot.state = "open"
    /\ writer.op = "none"
    /\ InFlight < limits.threads
    /\ new_file_size <= limits.file_size
    /\ new_file_size >= compact_threshold => Compactions < limits.compactions
    /\ files' = [files EXCEPT ![file] = append_record(@, data)]
    /\ file_size' = new_file_size
    /\ writer' = [NoWriter EXCEPT !.op = "set", !.key = key,
                     !.value = Some(value), !.pos = data_pos,
                     !.len = entry_len, !.new_file_size = new_file_size,
                     !.snap = Snap]
    /\ lastF' = [lastF EXCEPT ![key] = Some(value)]
    /\ ret' = NoRet
    /\ UNCHANGED <<path, file, index, compact_threshold, reader_pool, pending,
                   readers, limits, store,
                   pool_lock, law, boot>>

\* mutant: a set that reaches the threshold exactly does not compact
should_compact_above(new_file_size, current_threshold) ==
    new_file_size > current_threshold

should_compact(new_file_size, current_threshold) ==
    new_file_size >= current_threshold

SetIndex ==
    /\ writer.op = "set"
    /\ readers = EmptyBag
    /\ index' = insert(index, writer.key, LogIndex(writer.pos, writer.len))
    /\ store' = [store EXCEPT ![writer.key] = writer.value]
    /\ IF should_compact(writer.new_file_size, compact_threshold)
       THEN /\ pending' = pending (+) SetToBag({[key |-> writer.key,
                                                    snap |-> writer.snap]})
            /\ ret' = NoRet
       ELSE /\ pending' = pending
            /\ ret' = [NoRet EXCEPT !.op = "set", !.key = writer.key,
                                    !.snap = writer.snap]
    /\ writer' = NoWriter
    /\ UNCHANGED <<files, path, file, file_size, compact_threshold,
                   reader_pool, readers, limits, lastF,
                   pool_lock, law, boot>>

(***************************************************************************)
(* Engine::del                                                             *)
(***************************************************************************)
DelAppend(key, tstamp) ==
    LET data == serialize(DataFileEntry(tstamp, key, None))
        entry_len == Len(data)
    IN
    /\ boot.state = "open"
    /\ writer.op = "none"
    /\ InFlight < limits.threads
    /\ file_size + LEN_PREFIX_SIZE + entry_len <= limits.file_size
    /\ files' = [files EXCEPT ![file] = append_record(@, data)]
    /\ file_size' = file_size + LEN_PREFIX_SIZE + entry_len
    /\ writer' = [NoWriter EXCEPT !.op = "del", !.key = key, !.snap = Snap]
    /\ lastF' = [lastF EXCEPT ![key] = None]
    /\ ret' = NoRet
    /\ UNCHANGED <<path, file, index, compact_threshold, reader_pool, pending,
                   readers, limits, store,
                   pool_lock, law, boot>>

DelIndex ==
    /\ writer.op = "del"
    /\ readers = EmptyBag
    /\ index' = remove(index, writer.key)
    /\ store' = [store EXCEPT ![writer.key] = None]
    /\ ret' = [NoRet EXCEPT !.op = "del", !.key = writer.key,
                            !.snap = writer.snap]
    /\ writer' = NoWriter
    /\ UNCHANGED <<files, path, file, file_size, compact_threshold,
                   reader_pool, pending, readers, limits, lastF,
                   pool_lock, law, boot>>

(***************************************************************************)
(* Engine::get.  GetRead: the index lock is taken shared, the locator      *)
(* copied, a handle popped from the pool (or opened), sought and read.     *)
(* GetReturn: the handle goes back to the pool, the index lock is dropped  *)
(* and the bytes are decoded.  A get that finds no locator, or whose read  *)
(* fails, returns in GetRead.                                              *)
(***************************************************************************)
\* the values a get of key may return, by what the index held at its lookup
\* and what the writer that runs beside it writes
Allowed(key, seenIdx) ==
    {seenIdx} \cup (IF writer.op \in {"set", "del"} /\ writer.key = key
                    THEN {writer.value} ELSE {})

GetRet(key, result, seenF) ==
    [NoRet EXCEPT !.op = "get", !.key = key, !.result = result,
                  !.allowed = Allowed(key, store[key]),
                  !.seenIdx = store[key], !.seenF = seenF]

GetRead(key) ==
    /\ boot.state = "open"
    /\ InFlight < limits.threads
    /\ ~pool_lock
    /\ IF key \notin DOMAIN index
       THEN /\ ret' = GetRet(key, Ok(None), lastF[key])
            /\ UNCHANGED <<readers, reader_pool, files>>
       ELSE
         LET reader == get_reader(reader_pool, path)
             rd == read_exact_at(files[reader], index[key].pos, index[key].len)
         IN
         /\ reader_pool' = get_pool_after_pop(reader_pool)
         /\ IF rd = <<>>
            THEN /\ readers' = readers
                 /\ ret' = GetRet(key, Err, lastF[key])
                 /\ files' = Gc(files, Referenced(path, file, reader_pool',
                                                  readers, writer))
            ELSE /\ readers' = readers (+) SetToBag({
                        [key |-> key, loc |-> index[key], reader |-> reader,
                         data |-> rd[1], seenF |-> lastF[key]]})
                 /\ ret' = NoRet
                 /\ files' = files
    /\ UNCHANGED <<path, file, index, file_size, compact_threshold, writer,
                   pending, limits, store, lastF,
                   pool_lock, law, boot>>

GetReturn(r) ==
    /\ BagIn(r, readers)
    /\ ~pool_lock
    /\ reader_pool' = get_pool_after_push(reader_pool, r.reader)
    /\ readers' = readers (-) SetToBag({r})
    /\ ret' = GetRet(r.key, get_result(r.data), r.seenF)
    /\ files' = Gc(files, Referenced(path, file, reader_pool', readers', writer))
    /\ UNCHANGED <<path, file, index, file_size, compact_threshold, writer,
                   pending, limits, store, lastF,
                   pool_lock, law, boot>>

(***************************************************************************)
(* Engine::compact.  CompactBegin: the file lock is taken, the tmp file    *)
(* written from the index's locators and the reader pool cleared.          *)
(* CompactSwap: the index lock is taken exclusive, tmp renamed over the    *)
(* path, the handle reopened, index and size replaced, the pool refilled   *)
(* and the threshold adapted; every lock is dropped on return.             *)
(***************************************************************************)
\* the guard of reader_pool.lock() in `lock().unwrap().clear()` is a
\* temporary: it is dropped at the end of the statement
\* mutant: the pool lock taken for the clear is held on
pool_lock_kept == TRUE

pool_lock_after_clear == FALSE

CompactBegin(from_set) ==
    /\ boot.state = "open"
    /\ writer.op = "none"
    /\ ~pool_lock
    /\ pool_lock' = pool_lock_after_clear
    /\ from_set => pending # EmptyBag
    /\ ~from_set => /\ InFlight < limits.threads
                    /\ Compactions < limits.compactions
    /\ \E order \in IterOrders(index),
          caller \in IF from_set THEN BagToSet(pending)
                                 ELSE {[key |-> <<>>, snap |-> Snap]} :
         LET c == compact_copy(order, index, files[file],
                               write_header(<<>>, compact_threshold),
                               EmptyIndex, FILE_HEADER_SIZE)
             tmp == path + 1
         IN
         /\ c.ok
         /\ pending' = IF from_set THEN pending (-) SetToBag({caller})
                                   ELSE pending
         /\ reader_pool' = <<>>
         /\ writer' = [NoWriter EXCEPT !.op = "compact", !.tmp = tmp,
                          !.key = caller.key, !.snap = caller.snap,
                          !.new_index = c.new_index,
                          !.new_file_size = c.new_file_size,
                          !.old_file_size = file_size,
                          !.from_set = from_set,
                          !.pre = Contents, !.pre_keys = DOMAIN index]
         /\ files' = Gc([i \in DOMAIN files \cup {tmp} |->
                            IF i = tmp THEN c.tmp ELSE files[i]],
                        Referenced(path, file, <<>>, readers, writer'))
    /\ ret' = NoRet
    /\ UNCHANGED <<path, file, index, file_size, compact_threshold, readers,
                   limits, store, lastF,
                   law, boot>>

CompactSwap ==
    /\ writer.op = "compact"
    /\ readers = EmptyBag
    /\ ~pool_lock
    /\ pool_lock' = FALSE
    /\ path' = writer.tmp
    /\ file' = writer.tmp
    /\ index' = writer.new_index
    /\ file_size' = writer.new_file_size
    /\ reader_pool' = reader_pool \o open_readers(writer.tmp, PoolFill)
    /\ compact_threshold' =
           adapt_threshold(writer.new_file_size, writer.old_file_size,
                           compact_threshold)
    /\ files' = Gc([files EXCEPT ![writer.tmp] =
                       IF should_double(writer.new_file_size,
                                        writer.old_file_size)
                       THEN persist_threshold(@, compact_threshold')
                       ELSE @],
                   Referenced(path', file', reader_pool', readers, NoWriter))
    /\ writer' = NoWriter
    /\ ret' = [NoRet EXCEPT !.op = IF writer.from_set THEN "set" ELSE "compact",
                  !.compacted = TRUE,
                  !.key = writer.key, !.snap = writer.snap,
                  !.pre = writer.pre, !.pre_keys = writer.pre_keys,
                  !.old_file_size = writer.old_file_size,
                  !.old_threshold = compact_threshold]
    /\ UNCHANGED <<pending, readers, limits, store, lastF,
                   law, boot>>

(***************************************************************************)
(* The engine is dropped and Engine::load opens the path again.            *)
(***************************************************************************)
Reload ==
    /\ boot.state = "open"
    /\ Quiescent
    /\ ret.op # "load"
    /\ LET e == load(files[path]) IN
       /\ e.ok
       /\ files' = [i \in {path} |-> e.file]
       /\ file' = path
       /\ index' = e.index
       /\ file_size' = e.file_size
       /\ compact_threshold' = e.threshold
       /\ reader_pool' = open_readers(path, PoolFill)
    /\ ret' = [NoRet EXCEPT !.op = "load"]
    /\ UNCHANGED <<path, writer, pending, readers, limits, store, lastF,
                   pool_lock, law, boot>>

Next ==
    \/ \E k \in Keys, v \in Values, t \in Tstamps : SetAppend(k, v, t)
    \/ SetIndex
    \/ \E k \in Keys, t \in Tstamps : DelAppend(k, t)
    \/ DelIndex
    \/ \E k \in Keys : GetRead(k)
    \/ \E r \in BagToSet(readers) : GetReturn(r)
    \/ \E b \in BOOLEAN : CompactBegin(b)
    \/ CompactSwap
    \/ Reload

\* threads that call set, del and get (a set calls compact by itself)
NextRW ==
    \/ \E k \in Keys, v \in Values, t \in Tstamps : SetAppend(k, v, t)
    \/ SetIndex
    \/ \E k \in Keys, t \in Tstamps : DelAppend(k, t)
    \/ DelIndex
    \/ \E k \in Keys : GetRead(k)
    \/ \E r \in BagToSet(readers) : GetReturn(r)
    \/ CompactBegin(TRUE)
    \/ CompactSwap

\* threads that call get, and compact
NextReaders ==
    \/ \E k \in Keys : GetRead(k)
    \/ \E r \in BagToSet(readers) : GetReturn(r)
    \/ CompactBegin(FALSE)
    \/ CompactSwap

\* any calls from up to MaxThreads threads
Spec == Init /\ [][Next]_vars

\* one thread: a call starts when the one before it has returned
SpecSeq == InitSeq /\ [][Next]_vars

\* up to MaxReaders threads calling set, del and get
SpecRW == InitRW /\ [][NextRW]_vars

\* up to MaxReaders threads calling get and compact on a filled engine
SpecReaders == InitReaders /\ [][NextReaders]_vars

\* gets enough for their handles and compact's refill to pass the pool's cap,
\* and a compactor
InitPool ==
    \E h \in Histories :
        InitEngine(LogOf(h, write_header(<<>>, DEFAULT_COMPACT_THRESHOLD)),
                   StoreOf(h, EmptyStore),
                   [threads |-> PoolCap - PoolFill + 2,
                    file_size |-> MaxFileSizeConc,
                    compactions |-> MaxCompactionsReaders])

SpecPool == InitPool /\ [][NextReaders]_vars

(***************************************************************************)
(* One thread that calls set again and again on a log whose header holds   *)
(* any threshold; Engine::load takes the threshold from the header as it   *)
(* is.                                                                     *)
(***************************************************************************)
LoopThresholds == {0, 1, 64}

\* a value long enough for a rewrite of the other key to leave more than
\* three quarters of the file live
LoopValue == [i \in 1..24 |-> 7]

LoopCalls == <<[op |-> "set", key |-> <<1>>, value |-> Some(<<>>)],
               [op |-> "set", key |-> <<2>>, value |-> Some(LoopValue)]>>

InitLoop ==
    \E t \in LoopThresholds :
        LET f == LogOf(LoopCalls, write_header(<<>>, t)) IN
        InitEngine(f, StoreOf(LoopCalls, EmptyStore),
                   [threads |-> 1,
                    file_size |-> Len(f) + MaxFileSize,
                    compactions |-> MaxCompactions + 1])

NextLoop ==
    \/ \E k \in Keys, v \in Values, t \in Tstamps : SetAppend(k, v, t)
    \/ SetIndex
    \/ CompactBegin(TRUE)
    \/ CompactSwap

SpecLoop == InitLoop /\ [][NextLoop]_vars

(***************************************************************************)
(* Two threads that call set; each set that reaches the threshold calls    *)
(* compact after it has dropped the file lock.                             *)
(***************************************************************************)
InitTrigger ==
    \E t \in InitThresholds :
        InitEngine(write_header(<<>>, t), EmptyStore,
                   [threads |-> 2, file_size |-> MaxFileSize,
                    compactions |-> MaxCompactions])

NextTrigger ==
    \/ \E k \in Keys, v \in Values, t \in Tstamps : SetAppend(k, v, t)
    \/ SetIndex
    \/ CompactBegin(TRUE)
    \/ CompactSwap

SpecTrigger == InitTrigger /\ [][NextTrigger]_vars

(***************************************************************************)
(* I/O errors.  Every `?` of set, del and compact returns the error to the *)
(* caller at once, with the guards it holds dropped: what the call did     *)
(* before the failing step stays done.                                     *)
(***************************************************************************)
\* bytes of the frame that reach the file before write_all fails: none, or
\* the length prefix
AppendCuts == {0, LEN_PREFIX_SIZE}

\* seek / write_all of the append fails: set returns before it touches the
\* tracked size or the index
SetAppendFail(key, value, tstamp, n) ==
    LET data == serialize(DataFileEntry(tstamp, key, Some(value)))
        frame == to_le_bytes(Len(data)) \o data
    IN
    /\ boot.state = "open"
    /\ writer.op = "none"
    /\ InFlight < limits.threads
    /\ Len(files[file]) + n - file_size <= MaxTornBytes
    /\ files' = [files EXCEPT ![file] = @ \o SubSeq(frame, 1, n)]
    /\ ret' = [NoRet EXCEPT !.op = "set", !.key = key, !.result = Err,
                            !.snap = Snap]
    /\ UNCHANGED <<path, file, index, file_size, compact_threshold,
                   reader_pool, writer, pending, readers, limits, store,
                   lastF, pool_lock, law, boot>>

DelAppendFail(key, tstamp, n) ==
    LET data == serialize(DataFileEntry(tstamp, key, None))
        frame == to_le_bytes(Len(data)) \o data
    IN
    /\ boot.state = "open"
    /\ writer.op = "none"
    /\ InFlight < limits.threads
    /\ Len(files[file]) + n - file_size <= MaxTornBytes
    /\ files' = [files EXCEPT ![file] = @ \o SubSeq(frame, 1, n)]
    /\ ret' = [NoRet EXCEPT !.op = "del", !.key = key, !.result = Err,
                            !.snap = Snap]
    /\ UNCHANGED <<path, file, index, file_size, compact_threshold,
                   reader_pool, writer, pending, readers, limits, store,
                   lastF, pool_lock, law, boot>>

\* compact fails while it creates, writes or fills the tmp file: nothing of
\* the engine has changed yet
CompactCopyFail(from_set) ==
    /\ boot.state = "open"
    /\ writer.op = "none"
    /\ ~pool_lock
    /\ from_set => pending # EmptyBag
    /\ ~from_set => InFlight < limits.threads
    /\ \E caller \in IF from_set THEN BagToSet(pending)
                                ELSE {[key |-> <<>>, snap |-> Snap]} :
         /\ pending' = IF from_set THEN pending (-) SetToBag({caller})
                                   ELSE pending
         /\ ret' = [NoRet EXCEPT !.op = IF from_set THEN "set" ELSE "compact",
                                 !.key = caller.key, !.result = Err,
                                 !.snap = caller.snap]
    /\ UNCHANGED <<files, path, file, index, file_size, compact_threshold,
                   reader_pool, writer, readers, limits, store, lastF,
                   pool_lock, law, boot>>

SwapStages == {"rename", "reopen", "persist"}

\* compact fails after the pool is cleared and the index lock taken:
\* at the rename; at the reopening of the handle, with the rename done; or
\* in persist_threshold, with file, index, size and threshold replaced
CompactSwapFail(stage) ==
    LET doubled == should_double(writer.new_file_size, writer.old_file_size)
        swapped == stage = "persist"
    IN
    /\ writer.op = "compact"
    /\ readers = EmptyBag
    /\ ~pool_lock
    /\ stage = "persist" => doubled
    /\ path' = IF stage = "rename" THEN path ELSE writer.tmp
    /\ file' = IF swapped THEN writer.tmp ELSE file
    /\ index' = IF swapped THEN writer.new_index ELSE index
    /\ file_size' = IF swapped THEN writer.new_file_size ELSE file_size
    /\ reader_pool' = IF swapped
                      THEN reader_pool \o open_readers(writer.tmp, PoolFill)
                      ELSE reader_pool
    /\ compact_threshold' = IF swapped
                            THEN saturating_mul(compact_threshold, 2)
                            ELSE compact_threshold
    /\ files' = Gc(files, Referenced(path', file', reader_pool', readers,
                                     NoWriter))
    /\ writer' = NoWriter
    /\ ret' = [NoRet EXCEPT !.op = IF writer.from_set THEN "set" ELSE "compact",
                            !.key = writer.key, !.result = Err,
                            !.snap = writer.snap]
    /\ UNCHANGED <<pending, readers, limits, store, lastF, pool_lock, law, boot>>

InitFail ==
    \E f \in InitFiles :
        InitEngine(f, EmptyStore,
                   [threads |-> 1, file_size |-> MaxFileSizeConc,
                    compactions |-> MaxCompactions])

NextFail ==
    \/ \E k \in Keys, v \in Values, t \in Tstamps : SetAppend(k, v, t)
    \/ SetIndex
    \/ \E k \in Keys, t \in Tstamps : DelAppend(k, t)
    \/ DelIndex
    \/ \E k \in Keys : GetRead(k)
    \/ \E r \in BagToSet(readers) : GetReturn(r)
    \/ \E b \in BOOLEAN : CompactBegin(b)
    \/ CompactSwap
    \/ \E k \in Keys, v \in Values, t \in Tstamps, n \in AppendCuts :
          SetAppendFail(k, v, t, n)
    \/ \E k \in Keys, t \in Tstamps, n \in AppendCuts : DelAppendFail(k, t, n)
    \/ \E b \in BOOLEAN : CompactCopyFail(b)
    \/ \E stage \in SwapStages : CompactSwapFail(stage)

\* one thread, with calls that fail
SpecFail == InitFail /\ [][NextFail]_vars

(***************************************************************************)
(* Engine::load on any file: absent or empty, shorter than a header, with  *)
(* another magic, or a log whose last append was cut short.                *)
(***************************************************************************)
\* thresholds in the headers of the files given to load
LoadThresholds == {200, DEFAULT_COMPACT_THRESHOLD}

\* the append that was cut short, and how many of its bytes reached the file
TornFrame ==
    LET data == serialize(DataFileEntry(0, <<1>>, Some(<<7>>)))
    IN to_le_bytes(Len(data)) \o data

TailCuts == {0, 3, 8, 13}

\* what load may find at the path: [input, history, tail, threshold]
LoadInputs ==
    {[Booted EXCEPT !.state = "closed"]}
    \cup {[Booted EXCEPT !.state = "closed",
                         !.input = SubSeq(write_header(<<>>, 200), 1, n)] :
             n \in {1, 4, 11}}
    \cup {[Booted EXCEPT !.state = "closed",
                         !.input = [LogOf(h, write_header(<<>>, 200))
                                       EXCEPT ![m] = 0]] :
             h \in {g \in Histories : Len(g) <= 1}, m \in 1..4}
    \cup {[state |-> "closed",
           input |-> LogOf(h, write_header(<<>>, t)) \o SubSeq(TornFrame, 1, n),
           history |-> h, tail |-> SubSeq(TornFrame, 1, n), threshold |-> t] :
             h \in Histories, t \in LoadThresholds, n \in TailCuts}

InitLoad ==
    /\ boot \in LoadInputs
    /\ files = [i \in {0} |-> boot.input]
    /\ path = 0
    /\ file = 0
    /\ index = EmptyIndex
    /\ file_size = 0
    /\ compact_threshold = 0
    /\ reader_pool = <<>>
    /\ writer = NoWriter
    /\ pending = EmptyBag
    /\ readers = EmptyBag
    /\ ret = NoRet
    /\ limits = [threads |-> 1, file_size |-> MaxFileSize, compactions |-> 0]
    /\ store = EmptyStore
    /\ lastF = EmptyStore
    /\ pool_lock = FALSE
    /\ law = NoLaw

\* Engine::load returns an engine or an error
Open ==
    /\ boot.state = "closed"
    /\ LET e == load(files[path]) IN
       /\ files' = [files EXCEPT ![path] = e.file]
       /\ IF e.ok
          THEN /\ boot' = [boot EXCEPT !.state = "open"]
               /\ index' = e.index
               /\ file_size' = e.file_size
               /\ compact_threshold' = e.threshold
               /\ reader_pool' = open_readers(path, PoolFill)
               /\ store' = [k \in Keys |->
                              engine_get(e.index, files', path, <<>>, k).value]
               /\ lastF' = store'
               /\ ret' = [NoRet EXCEPT !.op = "open"]
          ELSE /\ boot' = [boot EXCEPT !.state = "error"]
               /\ ret' = [NoRet EXCEPT !.op = "open", !.result = Err]
               /\ UNCHANGED <<index, file_size, compact_threshold,
                              reader_pool, store, lastF>>
    /\ UNCHANGED <<path, file, writer, pending, readers, limits, pool_lock,
                   law>>

\* one thread opens the file, then calls set, del and get, and opens it again
NextLoad ==
    \/ Open
    \/ \E k \in Keys, v \in Values, t \in Tstamps : SetAppend(k, v, t)
    \/ SetIndex
    \/ \E k \in Keys, t \in Tstamps : DelAppend(k, t)
    \/ DelIndex
    \/ \E k \in Keys : GetRead(k)
    \/ \E r \in BagToSet(readers) : GetReturn(r)
    \/ Reload

SpecLoad == InitLoad /\ [][NextLoad]_vars

(***************************************************************************)
(* The last step of compact on its own, for sizes over the whole width     *)
(***************************************************************************)
LawSizes ==
    {FILE_HEADER_SIZE, 46, U64Mod \div 4, U64Mod \div 3 + 1, U64Mod \div 2, U64_MAX}

LawThresholds == {1, 64, U64Mod \div 2, U64_MAX}

InitLaw ==
    \E n \in LawSizes, o \in LawSizes, t \in LawThresholds :
        /\ n <= o
        /\ InitState(write_header(<<>>, DEFAULT_COMPACT_THRESHOLD), EmptyStore,
                     [threads |-> 0, file_size |-> 0, compactions |-> 0],
                     [NoLaw EXCEPT !.new_file_size = n, !.old_file_size = o,
                                   !.threshold = t])

\* `new_file_size * 4 > old_file_size * 3` and the doubling: a build without
\* overflow checks wraps the products, a build with them panics
ApplyLaw ==
    /\ ~law.done
    /\ \/ law' = [law EXCEPT
                    !.done = TRUE,
                    !.out = adapt_threshold(law.new_file_size,
                                            law.old_file_size, law.threshold)]
       \/ /\ \/ law.new_file_size * 4 > U64_MAX
             \/ law.old_file_size * 3 > U64_MAX
          /\ law' = [law EXCEPT !.done = TRUE, !.panic = TRUE,
                                !.out = law.threshold]
    /\ UNCHANGED <<files, path, file, index, file_size, compact_threshold,
                   reader_pool, writer, pending, readers, ret, limits, store,
                   lastF, pool_lock, boot>>

NextLaw == ApplyLaw

SpecLaw == InitLaw /\ [][NextLaw]_vars

(***************************************************************************)
(* Properties                                                              *)
(***************************************************************************)
\* the frames of a log from offset pos on: body position, length and bytes;
\* a tail that is no whole frame shows as a frame of length -1
RECURSIVE Frames(_, _)
Frames(f, pos) ==
    IF pos >= Len(f) THEN <<>>
    ELSE IF pos + LEN_PREFIX_SIZE > Len(f)
    THEN <<[pos |-> pos, len |-> -1, data |-> <<>>]>>
    ELSE
      LET len == from_le_bytes(SubSeq(f, pos + 1, pos + LEN_PREFIX_SIZE))
          body == pos + LEN_PREFIX_SIZE
      IN IF len > Len(f) - body
         THEN <<[pos |-> pos, len |-> -1, data |-> <<>>]>>
         ELSE <<[pos |-> body, len |-> len,
                 data |-> SubSeq(f, body + 1, body + len)]>>
              \o Frames(f, body + len)

RECURSIVE SumFrames(_, _)
SumFrames(idx, keys) ==
    IF keys = {} THEN 0
    ELSE LET k == CHOOSE x \in keys : TRUE IN
         LEN_PREFIX_SIZE + idx[k].len + SumFrames(idx, keys \ {k})

\* C1: with one thread, every get(k) returns the value of the most recent
\* set(k, v) that no del(k) followed, and None when there is none; a key set
\* to the empty value reads back Some(empty).
C1_GetReturnsLastSet ==
    ret.op = "get" => ret.result = Ok(store[ret.key])

\* a get returns Some(empty) for a key after a compaction
C1_Witness ==
    /\ ret.op = "get"
    /\ ret.result = Ok(Some(<<>>))
    /\ path > 0

\* C2: whenever no call runs, an engine loaded from the path returns for
\* every key what this engine returns.
C2_ReopenAgrees ==
    Quiescent =>
        LET e == load(files[path]) IN
        /\ e.ok
        /\ \A k \in Keys :
              engine_get(e.index, [i \in {path} |-> e.file], path,
                         open_readers(path, PoolFill), k)
              = Contents[k]

\* a del has just returned, another key is live behind an older record
C2_Witness ==
    /\ Quiescent
    /\ ret.op = "del"
    /\ \E k \in DOMAIN index : index[k].pos > FILE_HEADER_SIZE + LEN_PREFIX_SIZE

\* C3: a compact that returns leaves what get returns for each key, and the
\* key set of the index, as they were when it started.
C3_CompactKeepsContents ==
    ret.compacted =>
        /\ Contents = ret.pre
        /\ DOMAIN index = ret.pre_keys

\* a compact() has returned that dropped records and kept a live key
C3_Witness ==
    /\ ret.compacted
    /\ ret.op = "compact"
    /\ ret.pre_keys # {}
    /\ file_size < ret.old_file_size

\* C4: after a compact that returns, the live file is 12 bytes plus, for
\* each key of the index, 8 bytes and its body; the tracked size is that
\* number; and the file holds exactly one set record per key of the index,
\* at the key's locator.
C4_CompactedFileExact ==
    ret.compacted =>
        LET f == files[path]
            total == FILE_HEADER_SIZE + SumFrames(index, DOMAIN index)
            fr == Frames(f, FILE_HEADER_SIZE)
        IN
        /\ Len(f) = total
        /\ file_size = total
        /\ Len(fr) = Cardinality(DOMAIN index)
        /\ \A i \in DOMAIN fr :
              LET d == deserialize(fr[i].data) IN
              /\ fr[i].len >= 0
              /\ d # <<>>
              /\ IsSome(d[1].value)
              /\ d[1].key \in DOMAIN index
              /\ index[d[1].key] = LogIndex(fr[i].pos, fr[i].len)

\* a compact has returned on a log that held a tombstone and no live key
C4_Witness ==
    /\ ret.compacted
    /\ index = EmptyIndex
    /\ Len(files[path]) = FILE_HEADER_SIZE
    /\ ret.old_file_size > FILE_HEADER_SIZE

\* C5: compact doubles the threshold, saturating at the largest 64-bit
\* value, exactly when 4 * S_after > 3 * S_before as exact integers, and
\* leaves it unchanged otherwise, for every pair of sizes.
C5_ExactLaw ==
    law.done =>
        /\ ~law.panic
        /\ law.out = IF 4 * law.new_file_size > 3 * law.old_file_size
                     THEN (IF 2 * law.threshold > U64_MAX THEN U64_MAX
                           ELSE 2 * law.threshold)
                     ELSE law.threshold

\* C6: whenever no call runs, and while a set or del runs, bytes 0..4 of
\* the live file are KVS1 and bytes 4..12 are the in-memory threshold as a
\* little-endian number; so it is after a compact that doubled the threshold.
C6_HeaderMatchesThreshold ==
    (Quiescent \/ writer.op \in {"set", "del"}) =>
        /\ Len(files[path]) >= FILE_HEADER_SIZE
        /\ SubSeq(files[path], 1, 4) = FILE_HEADER_MAGIC
        /\ SubSeq(files[path], 5, FILE_HEADER_SIZE) = to_le_bytes(compact_threshold)

\* no call runs, the last one was a compaction that doubled the threshold
C6_Witness ==
    /\ Quiescent
    /\ ret.compacted
    /\ compact_threshold = 2 * ret.old_threshold

\* the steps that calls in flight take to finish
Continue ==
    \/ SetIndex
    \/ DelIndex
    \/ \E r \in BagToSet(readers) : GetReturn(r)
    \/ CompactBegin(TRUE)
    \/ CompactSwap

C8_GetDuringCompaction ==
    (ret.op = "get" /\ store[ret.key] # None) =>
        ret.result = Ok(store[ret.key])

\* C9: in no reachable state are the calls in flight all blocked: some call
\* that has started can take its next step.
C9_NoDeadlock ==
    InFlight > 0 => ENABLED Continue

\* a compaction waits for the index lock that two gets hold shared
C9_Witness ==
    /\ writer.op = "compact"
    /\ BagCardinality(readers) = 2

C11_FailedCompactChangesNothing ==
    (ret.op = "compact" /\ ~ret.result.ok) =>
        /\ files[path] = ret.snap.file
        /\ index = ret.snap.index
        /\ file_size = ret.snap.file_size
        /\ compact_threshold = ret.snap.threshold
        /\ Contents = ret.snap.contents

\* C12: when set(k, v) or del(k) returns an error, k's index entry is what
\* it was when the call started and get(k) returns what it returned then,
\* also when the error is that of the compaction the set called.
C12_FailedWriteKeepsKey ==
    (ret.op \in {"set", "del"} /\ ~ret.result.ok) =>
        /\ (ret.key \in DOMAIN index) = (ret.key \in DOMAIN ret.snap.index)
        /\ Contents[ret.key] = ret.snap.contents[ret.key]

\* C13: load on a non-empty file shorter than 12 bytes, or whose first 4
\* bytes are not KVS1, returns an error, makes no engine and leaves the
\* file's bytes as they were; load on an empty file succeeds and leaves a
\* 12-byte header with the default threshold.
C13_LoadRejectsBadHeader ==
    ret.op = "open" =>
        /\ (boot.input # <<>>
            /\ (Len(boot.input) < FILE_HEADER_SIZE
                \/ SubSeq(boot.input, 1, 4) # FILE_HEADER_MAGIC))
           => /\ boot.state = "error"
              /\ ~ret.result.ok
              /\ files[path] = boot.input
              /\ index = EmptyIndex /\ reader_pool = <<>>
        /\ boot.input = <<>>
           => /\ boot.state = "open"
              /\ files[path] = FILE_HEADER_MAGIC
                               \o to_le_bytes(DEFAULT_COMPACT_THRESHOLD)

\* load has refused a file of header length or more that holds another magic
C13_Witness ==
    /\ ret.op = "open"
    /\ boot.state = "error"
    /\ Len(boot.input) > FILE_HEADER_SIZE

\* the index that the calls of h leave, the first record at offset pos
RECURSIVE ReplayCalls(_, _, _)
ReplayCalls(h, pos, idx) ==
    IF h = <<>> THEN idx
    ELSE
      LET c == Head(h)
          len == Len(serialize(DataFileEntry(0, c.key, c.value)))
          body == pos + LEN_PREFIX_SIZE
      IN ReplayCalls(Tail(h), body + len,
             IF c.op = "set"
             THEN [k \in DOMAIN idx \cup {c.key} |->
                      IF k = c.key THEN [pos |-> body, len |-> len] ELSE idx[k]]
             ELSE [k \in DOMAIN idx \ {c.key} |-> idx[k]])

\* C14: load on a log whose last record is cut short, in its length prefix
\* or in its body, succeeds, and the index is the replay, in file order, of
\* the whole records before it.
C14_TornTailLoads ==
    (ret.op = "open" /\ boot.tail # <<>>) =>
        /\ boot.state = "open"
        /\ index = ReplayCalls(boot.history, FILE_HEADER_SIZE, EmptyIndex)
        /\ \A k \in Keys :
              Contents[k] = Ok(StoreOf(boot.history, EmptyStore)[k])

\* load has returned an engine with a live key on a log that ends inside
\* a record body
C14_Witness ==
    /\ ret.op = "open"
    /\ boot.state = "open"
    /\ Len(boot.tail) > LEN_PREFIX_SIZE
    /\ index # EmptyIndex

\* C16: after load the threshold is the one in the file's header when the
\* file had a valid header; it is the default, written to the new header,
\* when the file was empty.
C16_HeaderThresholdWins ==
    (ret.op = "open" /\ boot.state = "open") =>
        /\ compact_threshold = IF boot.input = <<>>
                               THEN DEFAULT_COMPACT_THRESHOLD
                               ELSE boot.threshold
        /\ SubSeq(files[path], 5, FILE_HEADER_SIZE)
           = to_le_bytes(compact_threshold)

\* load has returned an engine whose threshold is not the default
C16_Witness ==
    /\ ret.op = "open"
    /\ boot.state = "open"
    /\ compact_threshold = 200

\* C18: on an engine whose log holds a record cut short, after further set
\* and del calls a load of the path succeeds and its get returns for every
\* key what this engine's get returns.
C18_TornTailHarmless ==
    (boot.state = "open" /\ boot.tail # <<>> /\ Quiescent) =>
        LET e == load(files[path]) IN
        /\ e.ok
        /\ \A k \in Keys :
              engine_get(e.index, [i \in {path} |-> e.file], path, <<>>, k)
              = Contents[k]

\* C15: a set that returns has run compact exactly when the tracked size
\* after its append, the size before plus 8 plus the body length, was at
\* least the threshold; after it the tracked size is below the threshold or
\* is that of a compacted file, and get returns the value written.
C15_SetCompactsAtThreshold ==
    (ret.op = "set" /\ ret.result.ok) =>
        LET body == serialize(DataFileEntry(0, ret.key, store[ret.key]))
            size == ret.snap.file_size + LEN_PREFIX_SIZE + Len(body)
        IN
        /\ ret.compacted <=> size >= ret.snap.threshold
        /\ \/ file_size < ret.snap.threshold
           \/ /\ ret.compacted
              /\ file_size = FILE_HEADER_SIZE + SumFrames(index, DOMAIN index)
        /\ IsSome(store[ret.key])
        /\ Contents[ret.key] = Ok(store[ret.key])

\* a set has compacted whose append brought the size to the threshold
\* exactly
C15_Witness ==
    /\ ret.op = "set"
    /\ ret.compacted
    /\ ret.old_file_size = ret.snap.threshold

\* C17: a del of a key that is not in the index returns ok, appends one
\* tombstone of the key, adds 8 plus the body length to the tracked size,
\* and leaves the index, the threshold and the file generation alone.
C17_DelAbsentKey ==
    (ret.op = "del" /\ ret.result.ok /\ ret.key \notin DOMAIN ret.snap.index) =>
        LET before == Len(ret.snap.file)
            fr == Frames(files[path], before)
        IN
        /\ SubSeq(files[path], 1, before) = ret.snap.file
        /\ Len(fr) = 1
        /\ fr[1].len >= 0
        /\ deserialize(fr[1].data) = <<[tstamp |-> 0, key |-> ret.key,
                                       value |-> None]>>
        /\ file_size = ret.snap.file_size + LEN_PREFIX_SIZE + fr[1].len
        /\ index = ret.snap.index
        /\ compact_threshold = ret.snap.threshold
        /\ path = ret.snap.path
        /\ ~ret.compacted
        /\ pending = EmptyBag

\* a del of an absent key has returned with the size at the threshold or
\* above it
C17_Witness ==
    /\ ret.op = "del"
    /\ ret.key \notin DOMAIN ret.snap.index
    /\ file_size >= compact_threshold

\* C19: for every key of the index the locator lies in the live file
\* behind the header and a length prefix, the 8 bytes before it encode its
\* length, and its bytes are one whole record of that key with a value.
C19_LocatorsPointAtBodies ==
    \A k \in DOMAIN index :
        LET f == files[path]
            pos == index[k].pos
            len == index[k].len
        IN
        /\ pos >= FILE_HEADER_SIZE + LEN_PREFIX_SIZE
        /\ pos + len <= Len(f)
        /\ SubSeq(f, pos - LEN_PREFIX_SIZE + 1, pos) = to_le_bytes(len)
        /\ LET d == deserialize(SubSeq(f, pos + 1, pos + len)) IN
           /\ d # <<>>
           /\ d[1].key = k
           /\ IsSome(d[1].value)
           /\ serialize(d[1]) = SubSeq(f, pos + 1, pos + len)

\* two keys are live in a compacted file that a later set has appended to
C19_Witness ==
    /\ path > 0
    /\ Cardinality(DOMAIN index) = 2
    /\ ret.op = "set"
    /\ ~ret.compacted

\* the replay of frames i.. of fr: key -> the last frame of the key when it
\* is a set, nothing when it is a tombstone
RECURSIVE ReplayFrames(_, _, _)
ReplayFrames(fr, i, acc) ==
    IF i > Len(fr) THEN acc
    ELSE
      LET e == deserialize(fr[i].data)[1] IN
      ReplayFrames(fr, i + 1,
          IF IsSome(e.value)
          THEN [k \in DOMAIN acc \cup {e.key} |->
                   IF k = e.key THEN [pos |-> fr[i].pos, len |-> fr[i].len,
                                      value |-> e.value]
                   ELSE acc[k]]
          ELSE [k \in DOMAIN acc \ {e.key} |-> acc[k]])

\* C20: whenever no writer holds the file lock, the file is a sequence of
\* whole records, their replay in file order yields the index's key set and
\* for each key the locator of its last set record, and the value that wins
\* is that of the last writer of the key to take the file lock.
C20_FileOrderIsLockOrder ==
    writer.op = "none" =>
        LET fr == Frames(files[path], FILE_HEADER_SIZE) IN
        /\ \A i \in DOMAIN fr :
              fr[i].len >= 0 /\ deserialize(fr[i].data) # <<>>
        /\ LET live == ReplayFrames(fr, 1, <<>>) IN
           /\ DOMAIN live = DOMAIN index
           /\ \A k \in DOMAIN index :
                 /\ index[k] = [pos |-> live[k].pos, len |-> live[k].len]
                 /\ live[k].value = lastF[k]
           /\ \A k \in Keys \ DOMAIN index : lastF[k] = None

\* two sets of one key have appended, the second is about to compact, and
\* a get runs
C20_Witness ==
    /\ writer.op = "none"
    /\ pending # EmptyBag
    /\ Cardinality(DOMAIN index) = 1
    /\ readers # EmptyBag

\* C21: get has released the index lock before it touches the reader pool
\* or the file, so a writer that holds the file lock and comes to its index
\* step (the insert of set, the remove of del, the swap of compact) can take
\* the index lock exclusive whatever the gets beside it are doing.
C21_GetIOBlocksNoWriter ==
    /\ writer.op = "set" => ENABLED SetIndex
    /\ writer.op = "del" => ENABLED DelIndex
    /\ writer.op = "compact" => ENABLED CompactSwap

\* C22: in every reachable state the reader pool holds at most 8 handles,
\* whatever gets and compactions run together.
C22_PoolAtMostCap == Len(reader_pool) <= PoolCap

\* C23: once a compact has swapped the files (the path names the file it
\* wrote), every handle in the reader pool is open on the live file: none
\* is open on a file from before a compaction.
C23_PoolHandlesOnLiveFile ==
    path # 0 => \A i \in DOMAIN reader_pool : reader_pool[i] = path

\* C24: from the moment compact holds the file lock until it returns, the
\* only change to the index, the tracked size and the file being compacted
\* is compact's own swap, after which appends go to the new file; and once
\* every call has returned, get returns for every key the value of the last
\* set or del of it that returned.
C24_CompactionLosesNoWrite ==
    /\ [](file = path)
    /\ [](Quiescent =>
            \A k \in Keys : Contents[k] = Ok(store[k]) /\ lastF[k] = store[k])
    /\ [][writer.op = "compact" =>
            \/ /\ UNCHANGED <<index, file_size, file, path>>
               /\ files'[file] = files[file]
               /\ writer' = writer
            \/ /\ writer'.op = "none"
               /\ path' = writer.tmp
               /\ file' = writer.tmp
               /\ index' = writer.new_index]_vars

\* C25: no set that triggers a compaction leaves the engine as it found it
\* (the same file bytes, index, tracked size and threshold), for the same
\* set would then trigger the same compaction again without end; and a
\* compaction that reclaims less than a quarter leaves a greater threshold.
C25_CompactionLoopEnds ==
    (ret.op = "set" /\ ret.compacted) =>
        /\ ~ /\ files[path] = ret.snap.file
             /\ index = ret.snap.index
             /\ file_size = ret.snap.file_size
             /\ compact_threshold = ret.snap.threshold
        /\ should_double(file_size, ret.old_file_size) =>
               compact_threshold > ret.old_threshold

\* C26: whenever a compact called by set runs, the tracked size it took as
\* old_file_size is at or above the threshold; so no compact called by set
\* starts below the threshold, reclaims nothing and doubles the threshold.
C26_TriggeredCompactAtThreshold ==
    /\ (writer.op = "compact" /\ writer.from_set) =>
           writer.old_file_size >= compact_threshold
    /\ (ret.op = "set" /\ ret.compacted) =>
           ~ /\ ret.old_file_size < ret.old_threshold
             /\ file_size = ret.old_file_size
             /\ compact_threshold > ret.old_threshold

\* C27: whenever no call holds the file lock, the tracked file size is the
\* length in bytes of the live file, also after a set, del or compact that
\* returned an error.
C27_TrackedSizeIsFileLength ==
    (boot.state = "open" /\ writer.op = "none") =>
        file_size = Len(files[path])

====
